---- MODULE Spec2Model ----
(***************************************************************************)
(* Model of the perceptual-hash duplicate image detector                   *)
(* (image-duplicate-detector/ImageDuplicateDetector.php, config.php,       *)
(* upload.php): the images table, the upload directory, and the operations *)
(* saveImage, findDuplicate and deleteImage; of its admin panel            *)
(* (admin.php); of the sync script's parseGradedRows; and of the sheet     *)
(* automation's onEdit trigger (sheet-automation-final.gs).                *)
(***************************************************************************)
EXTENDS Integers, Sequences, FiniteSets, TLC

VARIABLES images, files, nextId, uniq, call, result, req, session, sheet, exec

vars == <<images, files, nextId, uniq, call, result, req, session, sheet, exec>>

(***************************************************************************)
(* Bounds of the model.                                                    *)
(***************************************************************************)
\* Number of saveImage calls that get as far as generating a file name
\* (calls that return before that are not counted).
MaxUploads == 2
\* Thresholds a caller passes to findDuplicate: 0..MaxThreshold.
MaxThreshold == 6
\* Number of concurrent upload requests in the interleaved specification.
NumProcs == 2
\* Longest hex string, beside the hashes of the catalogue's images, that a
\* caller passes to hammingDistance.
MaxHashLen == 3
\* Number of browser sessions that send requests to admin.php.
MaxSessions == 2
\* Number of rows, beside the header row, of the sheet that parseGradedRows
\* is given.
MaxSheetRows == 2
\* Number of rows of the images table that a lookup on its own scans.
MaxTableRows == 2
\* Number of rows the sheet automation appends to league sheets.
MaxCopies == 2

(***************************************************************************)
(* Program constants.                                                      *)
(***************************************************************************)
\* private $hashSize = 8
hashSize == 8
\* findDuplicate($imagePath, $threshold = 5)
DefaultThreshold == 5
\* define('SIMILARITY_THRESHOLD', 5)
SIMILARITY_THRESHOLD == 5
\* PHP's UPLOAD_ERR_OK
UPLOAD_ERR_OK == 0
\* 'similarity' => 100 - ($distance * 100 / 64): the literal 64
SimilarityBits == 64

allowedTypes == {"image/jpeg", "image/png", "image/gif", "image/webp"}

\* Values the documentation offers for SIMILARITY_THRESHOLD (0, 5, 10).
ConfiguredThresholds == {0, SIMILARITY_THRESHOLD, 2 * SIMILARITY_THRESHOLD}

Thresholds == 0..MaxThreshold

(***************************************************************************)
(* Uploaded files.  A file is a $_FILES element together with its content: *)
(* the hashSize x hashSize grid the image resamples to.  The first         *)
(* `bright` cells (row-major) have colour `hi`, the others colour `lo`.    *)
(***************************************************************************)
Image(name, bright, hi, lo) ==
    [name |-> name, error |-> UPLOAD_ERR_OK, mime |-> "image/png",
     decodable |-> TRUE, bright |-> bright, hi |-> hi, lo |-> lo]

\* A hashSize x hashSize image of one colour.
Solid(name, rgb) == Image(name, 0, rgb, rgb)

\* The files the upload form and the admin panel are exercised with.
Uploads ==
    << Image("a.png", 32, <<255, 255, 255>>, <<0, 0, 0>>),
       Image("b.png", 33, <<200, 180, 160>>, <<30, 60, 0>>),
       Image("c.png", 38, <<255, 0, 0>>, <<0, 0, 0>>),
       [Image("corrupt.png", 0, <<0, 0, 0>>, <<0, 0, 0>>) EXCEPT !.decodable = FALSE],
       [Image("notes.txt", 0, <<0, 0, 0>>, <<0, 0, 0>>)
           EXCEPT !.decodable = FALSE, !.mime = "text/plain"],
       [Image("partial.png", 32, <<255, 255, 255>>, <<0, 0, 0>>) EXCEPT !.error = 3] >>

\* Images of one colour.  Red and blue have the same intensity; the channel
\* sums of the two dim colours are not divisible by 3.
Solids ==
    << Solid("white.png", <<255, 255, 255>>),
       Solid("black.png", <<0, 0, 0>>),
       Solid("red.png", <<255, 0, 0>>),
       Solid("blue.png", <<0, 0, 255>>),
       Solid("dim1.png", <<1, 0, 0>>),
       Solid("dim5.png", <<3, 1, 1>>) >>

\* Grids of two tones for generateHash: every number of bright cells of
\* BrightCounts with every pair of Tones (a grid whose two tones are the same
\* has one intensity).  The tones' intensities are 0, 1/3, 2/3, 5/3, 30, 60
\* and 90.
BrightCounts == <<1, 20, 40, 63>>

Tones ==
    << <<0, 0, 0>>, <<1, 0, 0>>, <<2, 0, 0>>, <<3, 1, 1>>,
       <<30, 30, 30>>, <<60, 60, 60>>, <<90, 90, 90>> >>

GridAt(k) ==
    LET b == (k - 1) \div (Len(Tones) * Len(Tones))
        h == ((k - 1) \div Len(Tones)) % Len(Tones)
        l == (k - 1) % Len(Tones)
    IN  Image("grid" \o ToString(k) \o ".png", BrightCounts[b + 1], Tones[h + 1], Tones[l + 1])

Grids == [k \in 1..(Len(BrightCounts) * Len(Tones) * Len(Tones)) |-> GridAt(k)]

Catalog == Uploads \o Solids \o Grids

Files == 1..Len(Uploads)

SolidFiles == (Len(Uploads) + 1)..(Len(Uploads) + Len(Solids))

GridFiles == (Len(Uploads) + Len(Solids) + 1)..Len(Catalog)

\* Files that arrive whole and have an image's MIME type: the paths callers
\* hand to findDuplicate.
ImagePaths == {f \in Files : /\ Catalog[f].error = UPLOAD_ERR_OK
                              /\ Catalog[f].mime \in allowedTypes}

\* The upload passes saveImage's validation of the upload and its MIME type.
Accepted(f) == f \in ImagePaths

\* Files that upload and decode.
ValidFiles == {f \in Files : /\ Catalog[f].error = UPLOAD_ERR_OK
                             /\ Catalog[f].mime \in allowedTypes
                             /\ Catalog[f].decodable}

(***************************************************************************)
(* generateHash                                                            *)
(***************************************************************************)
\* loadImage: FALSE when the file does not decode.
loadImage(f) == Catalog[f].decodable

\* imagecolorat($resized, $x, $y) as <<r, g, b>>.
imagecolorat(f, x, y) ==
    IF y * hashSize + x < Catalog[f].bright THEN Catalog[f].hi ELSE Catalog[f].lo

\* $gray = ($r + $g + $b) / 3, held as its numerator $r + $g + $b: the
\* pixel values, their sum and their average are all counted in thirds.
gray(rgb) == rgb[1] + rgb[2] + rgb[3]

\* The nested loops over y and x: pixel i (1-based) is cell (x, y) = ((i-1) % N, (i-1) \div N).
pixels(f) ==
    [i \in 1..(hashSize * hashSize) |->
        gray(imagecolorat(f, (i - 1) % hashSize, (i - 1) \div hashSize))]

RECURSIVE array_sum(_)
array_sum(s) == IF s = <<>> THEN 0 ELSE s[1] + array_sum(Tail(s))

\* The channel sums s in 0..765 for which PHP's floating-point arithmetic
\* puts the average of hashSize * hashSize pixels that all equal s / 3 below
\* s / 3 itself: s / 3 is rounded to a double, array_sum adds it 64 times
\* with a rounding at each addition, and the sum divided by 64 comes out less
\* than the pixel.  No multiple of 3 is among them (integer pixel values add
\* exactly); for the other sums outside this set the average comes out equal
\* to or above the pixel.
AverageRoundsBelow ==
    {1, 2, 4, 7, 8, 11, 14, 16, 19, 22, 25, 28, 32, 35, 38, 41, 44, 47, 50,
     53, 56, 61, 64, 67, 70, 73, 76, 79, 82, 85, 88, 91, 94, 97, 100, 103,
     106, 109, 112, 122, 125, 128, 131, 134, 137, 140, 143, 146, 149, 152,
     155, 158, 161, 164, 167, 170, 173, 176, 179, 182, 185, 188, 191, 194,
     197, 200, 203, 206, 209, 212, 215, 218, 221, 224, 227, 241, 244, 247,
     250, 253, 256, 259, 262, 265, 268, 271, 274, 277, 280, 283, 286, 289,
     292, 295, 298, 301, 304, 307, 310, 313, 316, 319, 322, 325, 328, 331,
     334, 337, 340, 343, 346, 349, 352, 355, 358, 361, 364, 367, 370, 373,
     376, 379, 382, 385, 388, 391, 394, 397, 400, 403, 406, 409, 412, 415,
     418, 421, 424, 427, 430, 433, 436, 439, 442, 445, 448, 451, 454, 482,
     485, 488, 491, 494, 497, 500, 503, 506, 509, 512, 515, 518, 521, 524,
     527, 530, 533, 536, 539, 542, 545, 548, 551, 554, 557, 560, 563, 566,
     569, 572, 575, 578, 581, 584, 587, 590, 593, 596, 599, 602, 605, 608,
     611, 614, 617, 620, 623, 626, 629, 632, 635, 638, 641, 644, 647, 650,
     653, 656, 659, 662, 665, 668, 671, 674, 677, 680, 683, 686, 689, 692,
     695, 698, 701, 704, 707, 710, 713, 716, 719, 722, 725, 728, 731, 734,
     737, 740, 743, 746, 749, 752, 755, 758, 761, 764}

\* Variant of the comparison: $pixel >= $average.
AboveAverage_OrEqual(pixel, sum, count) == pixel * count >= sum

\* $pixel > $average with $average = array_sum($pixels) / count($pixels).
\* Where pixel and exact average differ they differ by at least 1/192, far
\* more than the rounding of the sum, and the comparison is that of the exact
\* values: pixel > sum/count  <=>  pixel * count > sum.  Where the pixel
\* equals the exact average (in the catalogue's images: when all cells have
\* one intensity) the rounding of the sum decides.
AboveAverage(pixel, sum, count) ==
    IF pixel * count = sum THEN pixel \in AverageRoundsBelow
    ELSE pixel * count > sum

\* $hash .= ($pixel > $average) ? '1' : '0'
HashBits(px) ==
    [i \in 1..Len(px) |-> IF AboveAverage(px[i], array_sum(px), Len(px)) THEN 1 ELSE 0]

RECURSIVE bindec(_)
bindec(bits) ==
    IF bits = <<>> THEN 0
    ELSE 2 * bindec(SubSeq(bits, 1, Len(bits) - 1)) + bits[Len(bits)]

HexDigits == <<"0", "1", "2", "3", "4", "5", "6", "7",
               "8", "9", "a", "b", "c", "d", "e", "f">>

dechex(v) == HexDigits[v + 1]

\* The value of each hex digit character, tabulated.
HexValue ==
    [c \in {HexDigits[i] : i \in DOMAIN HexDigits} |->
        CHOOSE v \in 0..15 : HexDigits[v + 1] = c]

\* hexdec of one character; PHP ignores a character that is no hex digit.
hexdec(c) == IF c \in DOMAIN HexValue THEN HexValue[c] ELSE 0

Min(a, b) == IF a < b THEN a ELSE b

\* dechex of a value below 256: one digit or two, without a leading zero.
dechexByte(v) ==
    IF v < 16 THEN <<dechex(v)>> ELSE <<dechex(v \div 16), dechex(v % 16)>>

\* Variant of the conversion that takes the bits eight at a time:
\* $hexHash .= dechex(bindec(substr($hash, $i, 8))).
RECURSIVE BinToHex_Bytes(_)
BinToHex_Bytes(bits) ==
    IF bits = <<>> THEN <<>>
    ELSE dechexByte(bindec(SubSeq(bits, 1, Min(8, Len(bits)))))
            \o BinToHex_Bytes(SubSeq(bits, 9, Len(bits)))

\* for ($i = 0; $i < strlen($hash); $i += 4) $hexHash .= dechex(bindec(substr($hash, $i, 4)))
BinToHex(bits) ==
    [k \in 1..((Len(bits) + 3) \div 4) |->
        dechex(bindec(SubSeq(bits, 4 * (k - 1) + 1, Min(4 * k, Len(bits)))))]

\* generateHash of a decodable file.
generateHash(f) == BinToHex(HashBits(pixels(f)))

\* The hash of every catalogue file, computed once.
HashOf == [f \in DOMAIN Catalog |-> IF loadImage(f) THEN generateHash(f) ELSE <<>>]

(***************************************************************************)
(* hammingDistance                                                         *)
(***************************************************************************)
Bit(v, k) == (v \div (2 ^ k)) % 2

\* Variant of the digit combination: $val1 | $val2.
Xor_Or(v1, v2) ==
    LET b(k) == IF Bit(v1, k) + Bit(v2, k) > 0 THEN 1 ELSE 0
    IN  b(0) + 2 * b(1) + 4 * b(2) + 8 * b(3)

\* Variant of the digit combination: $val1 & ~$val2.
Xor_AndNot(v1, v2) ==
    LET b(k) == IF Bit(v1, k) = 1 /\ Bit(v2, k) = 0 THEN 1 ELSE 0
    IN  b(0) + 2 * b(1) + 4 * b(2) + 8 * b(3)

\* $xor = $val1 ^ $val2 on two hex digit values.
Xor(v1, v2) ==
    LET b(k) == (Bit(v1, k) + Bit(v2, k)) % 2
    IN  b(0) + 2 * b(1) + 4 * b(2) + 8 * b(3)

\* Variant of the inner loop: $distance += $xor.
CountSetBits_AddsValue(x) == x

\* while ($xor) { $distance++; $xor &= $xor - 1; }: the number of set bits.
RECURSIVE CountSetBits(_)
CountSetBits(x) == IF x = 0 THEN 0 ELSE (x % 2) + CountSetBits(x \div 2)

\* The inner loop's count for every pair of digit values, tabulated.
DigitDistance == [v1 \in 0..15 |-> [v2 \in 0..15 |-> CountSetBits(Xor(v1, v2))]]

\* The for loop over the characters of $hash1, from character i on.
RECURSIVE DistanceFrom(_, _, _)
DistanceFrom(hash1, hash2, i) ==
    IF i > Len(hash1) THEN 0
    ELSE DigitDistance[hexdec(hash1[i])][hexdec(hash2[i])]
            + DistanceFrom(hash1, hash2, i + 1)

\* Variant of hammingDistance without the length test, comparing the
\* characters both strings have.
hammingDistance_Truncating(hash1, hash2) ==
    LET n == Min(Len(hash1), Len(hash2))
    IN  [error |-> FALSE,
         distance |-> DistanceFrom(SubSeq(hash1, 1, n), SubSeq(hash2, 1, n), 1)]

\* [error |-> TRUE] stands for the thrown "Hashes must be the same length",
\* which carries no distance.
hammingDistance(hash1, hash2) ==
    IF Len(hash1) # Len(hash2)
    THEN [error |-> TRUE]
    ELSE [error |-> FALSE, distance |-> DistanceFrom(hash1, hash2, 1)]

(***************************************************************************)
(* findDuplicate                                                           *)
(***************************************************************************)
\* The rows of "SELECT ... FROM images" in every order the database may
\* return them (the query has no ORDER BY).
Orders(rows) ==
    {o \in [1..Cardinality(rows) -> rows] : \A r \in rows : \E i \in DOMAIN o : o[i] = r}

\* What $stmt->execute() yields: the rows in some order, or a PDOException
\* (PDO::ERRMODE_EXCEPTION).
QueryFailed == [ok |-> FALSE, rows |-> <<>>]

GoodFetches(rows) == {[ok |-> TRUE, rows |-> o] : o \in Orders(rows)}

Fetches(rows) == GoodFetches(rows) \cup {QueryFailed}

Exception(message) == [kind |-> "exception", message |-> message]

\* Variant of the comparison: $distance < $threshold.
IsMatch_Strict(distance, threshold) == distance < threshold

\* Variant of the comparison: $distance == $threshold.
IsMatch_Exact(distance, threshold) == distance = threshold

\* if ($distance <= $threshold)
IsMatch(distance, threshold) == distance <= threshold

\* Variant of the similarity: 100 - $distance.
similarity_Plain(distance) == [num |-> 100 - distance, den |-> 1]

\* 'similarity' => 100 - ($distance * 100 / 64), as the fraction num / den.
similarity(distance) ==
    [num |-> 100 * SimilarityBits - distance * 100, den |-> SimilarityBits]

\* The rows at which the while loop stops: a throwing comparison or a match.
Stops(rows, hash, threshold) ==
    {i \in 1..Len(rows) :
        LET d == hammingDistance(hash, rows[i].phash)
        IN  d.error \/ IsMatch(d.distance, threshold)}

\* The array the loop returns for row `row` at distance `distance`.
Match(row, distance) ==
    [kind |-> "match", duplicate |-> TRUE, id |-> row.id, filename |-> row.filename,
     file_path |-> row.file_path, similarity |-> similarity(distance),
     hamming_distance |-> distance]

Null == [kind |-> "null"]

\* Variant of findDuplicate whose loop does not return at the first match and
\* so yields the last row within the threshold.
findDuplicate_LastMatch(fetch, f, threshold) ==
    IF ~loadImage(f) THEN Exception("Failed to load image")
    ELSE IF ~fetch.ok THEN Exception("PDOException")
    ELSE LET hash == HashOf[f]
             stops == Stops(fetch.rows, hash, threshold)
         IN  IF stops = {} THEN Null
             ELSE LET i == CHOOSE j \in stops : \A k \in stops : j >= k
                      d == hammingDistance(hash, fetch.rows[i].phash)
                  IN  IF d.error THEN Exception("Hashes must be the same length")
                      ELSE Match(fetch.rows[i], d.distance)

\* findDuplicate($imagePath, $threshold) on file f, with the outcome `fetch`
\* of its query.
findDuplicate(fetch, f, threshold) ==
    IF ~loadImage(f) THEN Exception("Failed to load image")
    ELSE IF ~fetch.ok THEN Exception("PDOException")
    ELSE LET hash == HashOf[f]
             stops == Stops(fetch.rows, hash, threshold)
         IN  IF stops = {} THEN Null
             ELSE LET i == CHOOSE j \in stops : \A k \in stops : j <= k
                      d == hammingDistance(hash, fetch.rows[i].phash)
                  IN  IF d.error THEN Exception("Hashes must be the same length")
                      ELSE Match(fetch.rows[i], d.distance)

(***************************************************************************)
(* saveImage, in its three steps                                           *)
(***************************************************************************)
Failure(error) == [kind |-> "return", success |-> FALSE, error |-> error]

Continue == [kind |-> "continue"]

\* Variant of the validation and duplicate check that tests $allowDuplicates
\* where the code tests !$allowDuplicates.
CheckDuplicates_Inverted(f, allowDuplicates, fetch) ==
    IF Catalog[f].error # UPLOAD_ERR_OK THEN Failure("Upload error")
    ELSE IF Catalog[f].mime \notin allowedTypes THEN Failure("Invalid image type")
    ELSE IF ~allowDuplicates THEN Continue
    ELSE LET duplicate == findDuplicate(fetch, f, DefaultThreshold)
         IN  IF duplicate.kind = "exception" THEN duplicate
             ELSE IF duplicate.kind = "match"
             THEN [kind |-> "return", success |-> FALSE,
                   error |-> "Duplicate image detected", duplicate |-> duplicate]
             ELSE Continue

\* Lines 146-171: upload and MIME validation, then the duplicate check with
\* findDuplicate's default threshold.
CheckDuplicates(f, allowDuplicates, fetch) ==
    IF Catalog[f].error # UPLOAD_ERR_OK THEN Failure("Upload error")
    ELSE IF Catalog[f].mime \notin allowedTypes THEN Failure("Invalid image type")
    ELSE IF allowDuplicates THEN Continue
    ELSE LET duplicate == findDuplicate(fetch, f, DefaultThreshold)
         IN  IF duplicate.kind = "exception" THEN duplicate
             ELSE IF duplicate.kind = "match"
             THEN [kind |-> "return", success |-> FALSE,
                   error |-> "Duplicate image detected", duplicate |-> duplicate]
             ELSE Continue

\* Variant of the file move that stores the file under a name taken from the
\* upload (one name per uploaded content) where the code takes uniqid's.
MoveUploadedFile_OriginalName(st, f, moveOk) ==
    LET filename == f
        named == [st EXCEPT !.uniq = st.uniq + 1]
    IN  IF moveOk
        THEN [st |-> [named EXCEPT !.files = [n \in DOMAIN st.files \cup {filename} |->
                                                 IF n = filename THEN f ELSE st.files[n]]],
              filename |-> filename, result |-> Continue]
        ELSE [st |-> named, filename |-> filename, result |-> Failure("Failed to save image")]

\* Lines 173-181: uniqid names the file, move_uploaded_file puts it in the
\* upload directory or fails.
MoveUploadedFile(st, f, moveOk) ==
    LET filename == st.uniq
        named == [st EXCEPT !.uniq = st.uniq + 1]
    IN  IF moveOk
        THEN [st |-> [named EXCEPT !.files = [n \in DOMAIN st.files \cup {filename} |->
                                                 IF n = filename THEN f ELSE st.files[n]]],
              filename |-> filename, result |-> Continue]
        ELSE [st |-> named, filename |-> filename, result |-> Failure("Failed to save image")]

\* unlink($filepath), which removes the file if it is there.
unlink(fs, filename) == [n \in DOMAIN fs \ {filename} |-> fs[n]]

\* Variant of the catch block that leaves the moved file in place.
CatchInsert_NoUnlink(st, filename) ==
    [st |-> st, result |-> Failure("Database error")]

\* The catch block of lines 209-213.
CatchInsert(st, filename) ==
    [st |-> [st EXCEPT !.files = unlink(st.files, filename)],
     result |-> Failure("Database error")]

\* Variant of the metadata step in which generateHash does not throw when the
\* image fails to load, so that the row is inserted with an empty hash.
InsertRecord_NoLoadCheck(st, filename, insertOk) ==
    LET f == st.files[filename]
    IN  IF ~insertOk THEN CatchInsert(st, filename)
        ELSE LET hash == HashOf[f]
                 row == [id |-> st.nextId, filename |-> Catalog[f].name,
                         file_path |-> filename, phash |-> hash]
             IN  [st |-> [st EXCEPT !.images = st.images \cup {row},
                                    !.nextId = st.nextId + 1],
                  result |-> [kind |-> "return", success |-> TRUE, id |-> st.nextId,
                              filename |-> filename, original_name |-> Catalog[f].name,
                              hash |-> hash]]

\* Lines 183-213: hash the moved file and insert its row; on an exception
\* remove the file again.
InsertRecord(st, filename, insertOk) ==
    LET f == st.files[filename]
    IN  IF ~loadImage(f) \/ ~insertOk THEN CatchInsert(st, filename)
        ELSE LET hash == HashOf[f]
                 row == [id |-> st.nextId, filename |-> Catalog[f].name,
                         file_path |-> filename, phash |-> hash]
             IN  [st |-> [st EXCEPT !.images = st.images \cup {row},
                                    !.nextId = st.nextId + 1],
                  result |-> [kind |-> "return", success |-> TRUE, id |-> st.nextId,
                              filename |-> filename, original_name |-> Catalog[f].name,
                              hash |-> hash]]

\* Variant of saveImage that moves the file before it checks for duplicates.
saveImage_MoveBeforeCheck(st, f, allowDuplicates, fetch, fault) ==
    IF ~Accepted(f) THEN [st |-> st, result |-> CheckDuplicates(f, allowDuplicates, fetch)]
    ELSE LET moved == MoveUploadedFile(st, f, fault # "move")
             checked == CheckDuplicates(f, allowDuplicates, fetch)
         IN  IF moved.result.kind # "continue"
             THEN [st |-> moved.st, result |-> moved.result]
             ELSE IF checked.kind # "continue"
             THEN [st |-> moved.st, result |-> checked]
             ELSE InsertRecord(moved.st, moved.filename, fault # "insert")

\* saveImage($file, $allowDuplicates) as one call.  `fetch` is the outcome of
\* the duplicate check's query, `fault` the step the environment makes fail
\* if the call gets to it ("move", "insert") or "none"; a failing step ends
\* the call, so one call meets at most one fault.
saveImage(st, f, allowDuplicates, fetch, fault) ==
    LET checked == CheckDuplicates(f, allowDuplicates, fetch)
    IN  IF checked.kind # "continue" THEN [st |-> st, result |-> checked]
        ELSE LET moved == MoveUploadedFile(st, f, fault # "move")
             IN  IF moved.result.kind # "continue"
                 THEN [st |-> moved.st, result |-> moved.result]
                 ELSE InsertRecord(moved.st, moved.filename, fault # "insert")

(***************************************************************************)
(* deleteImage                                                             *)
(***************************************************************************)
\* Variant of deleteImage whose DELETE has no WHERE clause.
deleteImage_AllRecords(st, id, fault) ==
    IF fault = "select" THEN [st |-> st, result |-> Exception("PDOException")]
    ELSE IF ~\E r \in st.images : r.id = id
    THEN [st |-> st, result |-> [kind |-> "return", value |-> FALSE]]
    ELSE LET image == CHOOSE r \in st.images : r.id = id
             unlinked == [st EXCEPT !.files = unlink(st.files, image.file_path)]
         IN  IF fault = "delete" THEN [st |-> unlinked, result |-> Exception("PDOException")]
             ELSE [st |-> [unlinked EXCEPT !.images = {}],
                   result |-> [kind |-> "return", value |-> TRUE]]

\* deleteImage($id); `fault` is the statement the environment makes fail
\* ("select", "delete") or "none".
deleteImage(st, id, fault) ==
    IF fault = "select" THEN [st |-> st, result |-> Exception("PDOException")]
    ELSE IF ~\E r \in st.images : r.id = id
    THEN [st |-> st, result |-> [kind |-> "return", value |-> FALSE]]
    ELSE LET image == CHOOSE r \in st.images : r.id = id
             unlinked == [st EXCEPT !.files = unlink(st.files, image.file_path)]
         IN  IF fault = "delete" THEN [st |-> unlinked, result |-> Exception("PDOException")]
             ELSE [st |-> [unlinked EXCEPT !.images = st.images \ {image}],
                   result |-> [kind |-> "return", value |-> TRUE]]

(***************************************************************************)
(* The state machine: calls made one after another                         *)
(***************************************************************************)
Store == [images |-> images, files |-> files, nextId |-> nextId, uniq |-> uniq]

SetStore(st) ==
    /\ images' = st.images
    /\ files' = st.files
    /\ nextId' = st.nextId
    /\ uniq' = st.uniq

Procs == 1..NumProcs

\* No request is being served: the previous one has sent its response.
NoCall == [op |-> "none"]

NoResult == [kind |-> "none"]

Idle == [pc |-> "idle"]

\* The browser sessions of the admin panel; $_SESSION of a new session is
\* empty, which isAuthenticated reads as not authenticated.
Sessions == 1..MaxSessions

\* $_SESSION as an array: a function from the keys that are set.
NewSession == [k \in {} |-> TRUE]

\* The picks entered in Sheet1 (columns B, C, E, F), one per data row; row
\* 1 of the sheet is the header.  A numeric cell is <<n>>, an empty one <<>>.
\* The last pick has no league yet.
Picks ==
    << [pick |-> "Chiefs -3", odds |-> <<0 - 110>>, units |-> <<1>>, league |-> "NFL"],
       [pick |-> "Lakers ML", odds |-> <<150>>, units |-> <<2>>, league |-> ""] >>

Rows == 2..(Len(Picks) + 1)

LeagueNames == {"NFL", "NBA"}

\* A pick as entered: GRADE, UNIT_RESULT and PROCESSED (K, L, M) are empty.
\* GRADE is held as its sequence of characters, UNIT_RESULT in hundredths.
Ungraded(p) ==
    [pick |-> p.pick, odds |-> p.odds, units |-> p.units, league |-> p.league,
     grade |-> <<>>, unitResult |-> <<>>, processed |-> ""]

\* A league sheet that does not exist yet.
NoSheet == [exists |-> FALSE, rows |-> <<>>]

\* The spreadsheet before any pick is graded: Sheet1 holds the picks and no
\* league sheet exists.  The rows of a league sheet are those below its
\* header row.
NewSpreadsheet ==
    [Sheet1 |-> [r \in Rows |-> Ungraded(Picks[r - 1])],
     leagues |-> [l \in LeagueNames |-> NoSheet]]

Init ==
    /\ images = {}
    /\ files = <<>>
    /\ nextId = 1
    /\ uniq = 1
    /\ call = NoCall
    /\ result = NoResult
    /\ req = [p \in Procs |-> Idle]
    /\ session = [s \in Sessions |-> NewSession]
    /\ sheet = NewSpreadsheet
    /\ exec = [p \in Procs |-> Idle]

\* The query outcomes a saveImage call can meet; a call that allows
\* duplicates runs no query.
SaveFetches(allowDuplicates) ==
    IF allowDuplicates THEN {QueryFailed} ELSE Fetches(images)

SaveImage ==
    /\ call = NoCall
    /\ \E f \in Files, allowDuplicates \in BOOLEAN, fault \in {"none", "move", "insert"} :
          \E fetch \in SaveFetches(allowDuplicates) :
             LET out == saveImage(Store, f, allowDuplicates, fetch, fault)
             IN  /\ out.st.uniq <= MaxUploads + 1
                 /\ SetStore(out.st)
                 /\ call' = [op |-> "saveImage", file |-> f,
                             allowDuplicates |-> allowDuplicates, fault |-> fault]
                 /\ result' = out.result
    /\ UNCHANGED <<req, session, sheet, exec>>

FindDuplicate ==
    /\ call = NoCall
    /\ \E f \in ImagePaths, threshold \in Thresholds, fetch \in Fetches(images) :
          /\ call' = [op |-> "findDuplicate", file |-> f, threshold |-> threshold]
          /\ result' = findDuplicate(fetch, f, threshold)
    /\ UNCHANGED <<images, files, nextId, uniq, req, session, sheet, exec>>

DeleteImage ==
    /\ call = NoCall
    /\ \E id \in 1..MaxUploads, fault \in {"none", "select", "delete"} :
          LET out == deleteImage(Store, id, fault)
          IN  /\ SetStore(out.st)
              /\ call' = [op |-> "deleteImage", id |-> id, fault |-> fault]
              /\ result' = out.result
    /\ UNCHANGED <<req, session, sheet, exec>>

\* The request ends: its result has gone to the caller.
Respond ==
    /\ call # NoCall
    /\ call' = NoCall
    /\ result' = NoResult
    /\ UNCHANGED <<images, files, nextId, uniq, req, session, sheet, exec>>

Next == SaveImage \/ FindDuplicate \/ DeleteImage \/ Respond

Spec == Init /\ [][Next]_vars

(***************************************************************************)
(* The state machine: upload requests served concurrently.  Each process   *)
(* serves one saveImage($file, false) request; its steps are the duplicate *)
(* check (one query), the file move and the insert.                        *)
(***************************************************************************)
Begin(p) ==
    /\ req[p].pc = "idle"
    /\ \E f \in Files, fetch \in Fetches(images) :
          LET checked == CheckDuplicates(f, FALSE, fetch)
          IN  req' = [req EXCEPT ![p] =
                        IF checked.kind = "continue"
                        THEN [pc |-> "move", file |-> f]
                        ELSE [pc |-> "done", file |-> f, result |-> checked]]
    /\ UNCHANGED <<images, files, nextId, uniq, call, result, session, sheet, exec>>

Move(p) ==
    /\ req[p].pc = "move"
    /\ \E moveOk \in BOOLEAN :
          LET moved == MoveUploadedFile(Store, req[p].file, moveOk)
          IN  /\ SetStore(moved.st)
              /\ req' = [req EXCEPT ![p] =
                           IF moveOk
                           THEN [pc |-> "insert", file |-> req[p].file,
                                 filename |-> moved.filename]
                           ELSE [pc |-> "done", file |-> req[p].file,
                                 result |-> moved.result]]
    /\ UNCHANGED <<call, result, session, sheet, exec>>

Insert(p) ==
    /\ req[p].pc = "insert"
    /\ \E insertOk \in BOOLEAN :
          LET out == InsertRecord(Store, req[p].filename, insertOk)
          IN  /\ SetStore(out.st)
              /\ req' = [req EXCEPT ![p] =
                           [pc |-> "done", file |-> req[p].file, result |-> out.result]]
    /\ UNCHANGED <<call, result, session, sheet, exec>>

NextConc == \E p \in Procs : Begin(p) \/ Move(p) \/ Insert(p)

SpecConc == Init /\ [][NextConc]_vars

(***************************************************************************)
(* The state machine: hammingDistance called on its own, on pairs of hex    *)
(* strings.                                                                *)
(***************************************************************************)
HexStrings(digits, n) == [1..n -> digits]

\* Digits whose bit patterns are 0000, 0111, 1010 and 1111.
SampleDigits == {"0", "7", "a", "f"}

\* The strings passed as $hash1 and $hash2: the empty string, every single
\* hex digit, the strings of up to MaxHashLen sample digits, and the hashes
\* of the catalogue's images.
Fingerprints ==
    {<<>>}
       \cup HexStrings(DOMAIN HexValue, 1)
       \cup UNION {HexStrings(SampleDigits, n) : n \in 2..MaxHashLen}
       \cup {HashOf[f] : f \in ValidFiles}

HammingDistance ==
    /\ call = NoCall
    /\ \E hash1 \in Fingerprints, hash2 \in Fingerprints :
          LET d == hammingDistance(hash1, hash2)
          IN  /\ call' = [op |-> "hammingDistance", hash1 |-> hash1, hash2 |-> hash2]
              /\ result' = IF d.error THEN Exception("Hashes must be the same length")
                            ELSE [kind |-> "return", value |-> d.distance]
    /\ UNCHANGED <<images, files, nextId, uniq, req, session, sheet, exec>>

NextHamming == HammingDistance \/ Respond

SpecHamming == Init /\ [][NextHamming]_vars

(***************************************************************************)
(* The state machine: generateHash called on its own, on every image of    *)
(* the catalogue.                                                          *)
(***************************************************************************)
GenerateHash ==
    /\ call = NoCall
    /\ \E f \in DOMAIN Catalog :
          /\ call' = [op |-> "generateHash", file |-> f]
          /\ result' = IF ~loadImage(f) THEN Exception("Failed to load image")
                        ELSE [kind |-> "return", value |-> generateHash(f)]
    /\ UNCHANGED <<images, files, nextId, uniq, req, session, sheet, exec>>

NextHash == GenerateHash \/ Respond

SpecHash == Init /\ [][NextHash]_vars

(***************************************************************************)
(* The state machine: images of one colour registered and looked up.       *)
(***************************************************************************)
SaveSolidImage ==
    /\ call = NoCall
    /\ \E f \in SolidFiles, allowDuplicates \in BOOLEAN, fault \in {"none", "move", "insert"} :
          \E fetch \in SaveFetches(allowDuplicates) :
             LET out == saveImage(Store, f, allowDuplicates, fetch, fault)
             IN  /\ out.st.uniq <= MaxUploads + 1
                 /\ SetStore(out.st)
                 /\ call' = [op |-> "saveImage", file |-> f,
                             allowDuplicates |-> allowDuplicates, fault |-> fault]
                 /\ result' = out.result
    /\ UNCHANGED <<req, session, sheet, exec>>

FindSolidDuplicate ==
    /\ call = NoCall
    /\ \E f \in SolidFiles, threshold \in Thresholds, fetch \in Fetches(images) :
          /\ call' = [op |-> "findDuplicate", file |-> f, threshold |-> threshold]
          /\ result' = findDuplicate(fetch, f, threshold)
    /\ UNCHANGED <<images, files, nextId, uniq, req, session, sheet, exec>>

NextSolid == SaveSolidImage \/ FindSolidDuplicate \/ Respond

SpecSolid == Init /\ [][NextSolid]_vars

(***************************************************************************)
(* The state machine: findDuplicate called on its own, on any image path,  *)
(* with any integer threshold, over a table that may hold records indexed  *)
(* under another grid size (a $hashSize of 4 gives fingerprints of 4 hex   *)
(* digits).                                                                *)
(***************************************************************************)
StoredRow(id, f) ==
    [id |-> id, filename |-> Catalog[f].name, file_path |-> id, phash |-> HashOf[f]]

\* A record whose fingerprint was generated with $hashSize = 4.
LegacyRow(id) ==
    [id |-> id, filename |-> "old.png", file_path |-> id, phash |-> <<"f", "0", "0", "f">>]

TableRows == <<StoredRow(1, 1), StoredRow(2, 2), StoredRow(3, 3), LegacyRow(4)>>

\* What the query of findDuplicate yields: up to n rows of different
\* records, in any order.
RECURSIVE TablesOf(_)
TablesOf(n) ==
    IF n = 0 THEN {<<>>}
    ELSE LET shorter == TablesOf(n - 1)
         IN  shorter \cup {Append(rows, TableRows[k]) :
                              rows \in {q \in shorter : Len(q) = n - 1},
                              k \in DOMAIN TableRows}

Tables ==
    {rows \in TablesOf(MaxTableRows) :
        \A i, j \in DOMAIN rows : rows[i].id = rows[j].id => i = j}

\* The thresholds a caller can pass: $threshold is not typed beyond int.
AnyThresholds ==
    {0 - 1, 0, DefaultThreshold, hashSize * hashSize, hashSize * hashSize + 1}

Lookup ==
    /\ call = NoCall
    /\ \E rows \in Tables, f \in ImagePaths, threshold \in AnyThresholds :
          /\ call' = [op |-> "findDuplicate", file |-> f, threshold |-> threshold,
                      rows |-> rows]
          /\ result' = findDuplicate([ok |-> TRUE, rows |-> rows], f, threshold)
    /\ UNCHANGED <<images, files, nextId, uniq, req, session, sheet, exec>>

NextLookup == Lookup \/ Respond

SpecLookup == Init /\ [][NextLookup]_vars

(***************************************************************************)
(* The admin panel (admin.php, config.php): login, logout and deletion.    *)
(***************************************************************************)
ADMIN_PASSWORD == "change_this_password"

ALLOW_DUPLICATES == FALSE

isAuthenticated_Always(sess) == TRUE

\* isset($_SESSION['authenticated']) && $_SESSION['authenticated'] === true
isAuthenticated(sess) ==
    "authenticated" \in DOMAIN sess /\ sess["authenticated"] = TRUE

authenticate(sess, password) ==
    IF password = ADMIN_PASSWORD
    THEN [sess |-> [k \in DOMAIN sess \cup {"authenticated"} |->
                       IF k = "authenticated" THEN TRUE ELSE sess[k]],
          ok |-> TRUE]
    ELSE [sess |-> sess, ok |-> FALSE]

\* unset($_SESSION['authenticated']); session_destroy();
logout(sess) == NewSession

\* The passwords a login form sends: the right one, a wrong one, the empty
\* string.
Passwords == {ADMIN_PASSWORD, "letmein", ""}

\* The requests admin.php receives.  A GET request carries no POST fields;
\* the logout parameter is part of the URL and can come with either method.
\* post is the set of POST fields that are set; a field that is not set
\* has no value (the model writes the first value of its kind there).
AdminRequests ==
    {r \in [method : {"GET", "POST"}, logout : BOOLEAN,
            post : SUBSET {"password", "delete_id"},
            password : Passwords, delete_id : 1..MaxUploads] :
        /\ r.method = "GET" => r.post = {}
        /\ "password" \notin r.post => r.password = ""
        /\ "delete_id" \notin r.post => r.delete_id = 1}

\* isset($_POST[field])
isset(r, field) == field \in r.post

Redirect(after) == [kind |-> "redirect", location |-> "admin.php", after |-> after]

LoginPage(loginError) == [kind |-> "page", page |-> "login", loginError |-> loginError]

\* Lines 16-24 of admin.php: the login attempt of a request, if it makes one.
HandleLogin(sess, r) ==
    IF r.method = "POST" /\ isset(r, "password")
    THEN authenticate(sess, r.password)
    ELSE [sess |-> sess, ok |-> FALSE]

\* One request to admin.php, from its first line to its exit.
admin(st, sess, r, fault) ==
    IF r.logout
    THEN [st |-> st, sess |-> logout(sess), result |-> Redirect("logout")]
    ELSE LET login == HandleLogin(sess, r)
         IN  IF login.ok
             THEN [st |-> st, sess |-> login.sess, result |-> Redirect("login")]
             ELSE IF ~isAuthenticated(login.sess)
             THEN [st |-> st, sess |-> login.sess,
                   result |-> LoginPage(r.method = "POST" /\ isset(r, "password"))]
             ELSE IF isset(r, "delete_id")
             THEN LET out == deleteImage(st, r.delete_id, fault)
                  IN  [st |-> out.st, sess |-> login.sess,
                       result |-> IF out.result.kind = "exception" THEN out.result
                                  ELSE Redirect("delete")]
             ELSE [st |-> st, sess |-> login.sess,
                   result |-> [kind |-> "page", page |-> "images"]]

AdminRequest ==
    /\ call = NoCall
    /\ \E s \in Sessions, r \in AdminRequests, fault \in {"none", "select", "delete"} :
          LET out == admin(Store, session[s], r, fault)
          IN  /\ SetStore(out.st)
              /\ session' = [session EXCEPT ![s] = out.sess]
              /\ call' = [op |-> "admin", session |-> s, request |-> r]
              /\ result' = out.result
    /\ UNCHANGED <<req, sheet, exec>>

\* upload.php as configured: saveImage($_FILES['image'], ALLOW_DUPLICATES).
Upload ==
    /\ call = NoCall
    /\ \E f \in Files, fault \in {"none", "move", "insert"} :
          \E fetch \in SaveFetches(ALLOW_DUPLICATES) :
             LET out == saveImage(Store, f, ALLOW_DUPLICATES, fetch, fault)
             IN  /\ out.st.uniq <= MaxUploads + 1
                 /\ SetStore(out.st)
                 /\ call' = [op |-> "saveImage", file |-> f,
                             allowDuplicates |-> ALLOW_DUPLICATES, fault |-> fault]
                 /\ result' = out.result
    /\ UNCHANGED <<req, session, sheet, exec>>

NextAdmin == Upload \/ AdminRequest \/ Respond

(***************************************************************************)
(* The state machine: uploads as configured (duplicates not allowed) and   *)
(* deletions, one call at a time.                                          *)
(***************************************************************************)
NextSeq == Upload \/ DeleteImage \/ Respond

SpecSeq == Init /\ [][NextSeq]_vars

SpecAdmin == Init /\ [][NextAdmin]_vars

(***************************************************************************)
(* The sync script (parseGradedRows): the rows of the sheet's CSV export    *)
(* that are graded and processed.  A cell is a string, held as its         *)
(* sequence of characters.                                                 *)
(***************************************************************************)
Whitespace == {" ", "\t", "\n", "\r"}

LowerCase == <<"a", "b", "c", "d", "e", "f", "g", "h", "i", "j", "k", "l", "m",
               "n", "o", "p", "q", "r", "s", "t", "u", "v", "w", "x", "y", "z">>

UpperCase == <<"A", "B", "C", "D", "E", "F", "G", "H", "I", "J", "K", "L", "M",
               "N", "O", "P", "Q", "R", "S", "T", "U", "V", "W", "X", "Y", "Z">>

\* String.prototype.toUpperCase
toUpperCase(str) ==
    [i \in DOMAIN str |->
        IF \E k \in DOMAIN LowerCase : LowerCase[k] = str[i]
        THEN UpperCase[CHOOSE k \in DOMAIN LowerCase : LowerCase[k] = str[i]]
        ELSE str[i]]

RECURSIVE trimStart(_)
trimStart(str) ==
    IF str # <<>> /\ Head(str) \in Whitespace THEN trimStart(Tail(str)) ELSE str

RECURSIVE trimEnd(_)
trimEnd(str) ==
    IF str # <<>> /\ str[Len(str)] \in Whitespace
    THEN trimEnd(SubSeq(str, 1, Len(str) - 1))
    ELSE str

\* String.prototype.trim
trim(str) == trimEnd(trimStart(str))

\* row[k] ? String(row[k]).trim().toUpperCase() : ''
Normalized(cell) == IF cell # <<>> THEN toUpperCase(trim(cell)) ELSE <<>>

\* The object pushed for a row; a cell c is kept as c || '', itself.
GradedPick(row) ==
    [date |-> row[1], pick |-> row[2], odds |-> row[3], result |-> row[4],
     units |-> row[5], league |-> row[6], sport |-> row[7], ready |-> row[8],
     postedAt |-> row[9], pushed |-> row[10], grade |-> Normalized(row[11]),
     unitResult |-> row[12], processed |-> Normalized(row[13])]

\* The loop of parseGradedRows from row i on (rows are numbered from 1
\* here: the header row, index 0 of the array, is row 1).
RECURSIVE GradedLoop(_, _, _)
GradedLoop(rows, i, gradedPicks) ==
    IF i > Len(rows) THEN gradedPicks
    ELSE IF Len(rows[i]) < 13 THEN GradedLoop(rows, i + 1, gradedPicks)
    ELSE IF /\ Normalized(rows[i][11]) \in {<<"W">>, <<"L">>, <<"P">>}
            /\ Normalized(rows[i][13]) = <<"Y", "E", "S">>
    THEN GradedLoop(rows, i + 1, Append(gradedPicks, GradedPick(rows[i])))
    ELSE GradedLoop(rows, i + 1, gradedPicks)

parseGradedRows_WithHeader(rows) == GradedLoop(rows, 1, <<>>)

parseGradedRows(rows) == GradedLoop(rows, 2, <<>>)

\* A row of n cells with the given pick, grade and processed marker (the
\* cells a short row lacks are left out).
SheetRow(n, pick, grade, processed) ==
    [k \in 1..n |->
        CASE k = 1 -> <<"1", "1", "/", "2">>
          [] k = 2 -> pick
          [] k = 11 -> grade
          [] k = 13 -> processed
          [] OTHER -> <<>>]

HeaderRows ==
    { [k \in 1..13 |-> <<"H">>],
      SheetRow(13, <<"P", "i", "c", "k">>, <<"W">>, <<"Y", "E", "S">>) }

DataRows ==
    << SheetRow(13, <<"A">>, <<"W">>, <<"Y", "E", "S">>),
       SheetRow(13, <<"B">>, <<" ", "l", " ">>, <<"y", "e", "s", " ">>),
       SheetRow(14, <<"C">>, <<"p">>, <<"\t", "Y", "e", "s">>),
       SheetRow(12, <<"D">>, <<"W">>, <<>>),
       SheetRow(13, <<"E">>, <<"X">>, <<"Y", "E", "S">>),
       SheetRow(13, <<"F">>, <<"W">>, <<"N", "O">>),
       SheetRow(13, <<"G">>, <<>>, <<"Y", "E", "S">>),
       SheetRow(13, <<"H">>, <<"L">>, <<>>),
       SheetRow(13, <<"I">>, <<"W", "L">>, <<"Y", "E", "S">>),
       SheetRow(13, <<"J">>, <<"L">>, <<"Y", " ", "E", "S">>),
       SheetRow(13, <<"K">>, <<" ">>, <<"P", "R", "O", "C", "E", "S", "S", "E", "D">>),
       SheetRow(1, <<>>, <<>>, <<>>) >>

\* The sheets parseGradedRows is given: nothing at all, or a header row
\* followed by up to MaxSheetRows rows.
RECURSIVE SheetsOf(_)
SheetsOf(n) ==
    IF n = 0 THEN {<<h>> : h \in HeaderRows}
    ELSE LET shorter == SheetsOf(n - 1)
         IN  shorter \cup {Append(rows, DataRows[k]) :
                              rows \in {q \in shorter : Len(q) = n},
                              k \in DOMAIN DataRows}

Sheets == {<<>>} \cup SheetsOf(MaxSheetRows)

ParseGradedRows ==
    /\ call = NoCall
    /\ \E rows \in Sheets :
          /\ call' = [op |-> "parseGradedRows", rows |-> rows]
          /\ result' = [kind |-> "return", value |-> parseGradedRows(rows)]
    /\ UNCHANGED <<images, files, nextId, uniq, req, session, sheet, exec>>

NextSync == ParseGradedRows \/ Respond

SpecSync == Init /\ [][NextSync]_vars

(***************************************************************************)
(* The sheet automation (sheet-automation-final.gs): onEdit, run by the    *)
(* spreadsheet once for every edit.  Executions of the trigger overlap     *)
(* when edits follow each other quickly; an execution writes through       *)
(* SpreadsheetApp calls, each followed by flush(), and any of them can     *)
(* throw, which the catch block logs.                                      *)
(***************************************************************************)
\* What the user types into column K.
GradeInputs == {<<"W">>, <<"l">>, <<"P">>, <<"X">>}

\* String(grade).toUpperCase().trim()
gradeUpper(grade) == trim(toUpperCase(grade))

\* processedValue === 'YES' || processedValue === 'PROCESSED'
AlreadyProcessed(processedValue) == processedValue \in {"YES", "PROCESSED"}

\* Math.round(x * 100) for x = n / d with d > 0: in hundredths.
RoundHundredths(n, d) == (2 * 100 * n + d) \div (2 * d)

\* The unit result of a graded pick, in hundredths.
unitResult(grade, odds, units) ==
    CASE grade = <<"W">> ->
            IF odds >= 0 THEN RoundHundredths(units * odds, 100)
            ELSE RoundHundredths(units * 100, 0 - odds)
      [] grade = <<"L">> -> 0 - 100 * units
      [] OTHER -> 0

\* The execution has returned, its last log line being `log`.
Returned(r, log) == [pc |-> "done", row |-> r, log |-> log]

\* Lines 56-148: the checks of onEdit on an edit of column K of row r of
\* Sheet1 to `value`, and the write of the unit result.
BeginOnEdit(sh, r, value) ==
    LET row == sh.Sheet1[r]
    IN  IF value = <<>> THEN [sheet |-> sh, exec |-> Returned(r, "Skipped: No grade value")]
        ELSE IF gradeUpper(value) \notin {<<"W">>, <<"L">>, <<"P">>}
        THEN [sheet |-> sh, exec |-> Returned(r, "Skipped: Invalid grade")]
        ELSE IF AlreadyProcessed(row.processed)
        THEN [sheet |-> sh, exec |-> Returned(r, "Skipped: Already processed")]
        ELSE IF row.league = ""
        THEN [sheet |-> sh, exec |-> Returned(r, "ERROR: No league name in column F")]
        ELSE IF row.odds = <<>> \/ row.units = <<>>
        THEN [sheet |-> sh, exec |-> Returned(r, "ERROR: Invalid odds or units")]
        ELSE [sheet |-> [sh EXCEPT !.Sheet1[r].unitResult =
                            <<unitResult(gradeUpper(value), row.odds[1], row.units[1])>>],
              exec |-> [pc |-> "copy", row |-> r, leagueName |-> row.league]]

\* The number of rows copied to league sheets so far.
Copies(sh) ==
    LET RECURSIVE Sum(_)
        Sum(ls) == IF ls = {} THEN 0
                   ELSE LET l == CHOOSE x \in ls : TRUE
                        IN  Len(sh.leagues[l].rows) + Sum(ls \ {l})
    IN  Sum(LeagueNames)

\* The user edits column K of a row of Sheet1 and the trigger starts.
Edit(p) ==
    /\ exec[p].pc \in {"idle", "done"}
    /\ \E r \in Rows, value \in GradeInputs :
          LET edited == [sheet EXCEPT !.Sheet1[r].grade = value]
              out == BeginOnEdit(edited, r, value)
          IN  /\ sheet' = out.sheet
              /\ exec' = [exec EXCEPT ![p] = out.exec]
    /\ UNCHANGED <<images, files, nextId, uniq, call, result, req, session>>

\* Lines 151-185: the league sheet is found or created and the row, as it
\* is now, is written below its last row.
Copy(p) ==
    /\ exec[p].pc = "copy"
    /\ Copies(sheet) < MaxCopies
    /\ \E thrown \in BOOLEAN :
          IF thrown
          THEN /\ exec' = [exec EXCEPT ![p] = Returned(exec[p].row, "ERROR in onEdit")]
               /\ UNCHANGED sheet
          ELSE LET rowData == sheet.Sheet1[exec[p].row]
                   targetSheet == sheet.leagues[exec[p].leagueName]
               IN  /\ sheet' = [sheet EXCEPT !.leagues[exec[p].leagueName] =
                                    [exists |-> TRUE,
                                     rows |-> Append(targetSheet.rows, rowData)]]
                   /\ exec' = [exec EXCEPT ![p].pc = "mark"]
    /\ UNCHANGED <<images, files, nextId, uniq, call, result, req, session>>

\* Lines 188-194: the row is marked as processed.
Mark(p) ==
    /\ exec[p].pc = "mark"
    /\ \E thrown \in BOOLEAN :
          IF thrown
          THEN /\ exec' = [exec EXCEPT ![p] = Returned(exec[p].row, "ERROR in onEdit")]
               /\ UNCHANGED sheet
          ELSE /\ sheet' = [sheet EXCEPT !.Sheet1[exec[p].row].processed = "YES"]
               /\ exec' = [exec EXCEPT ![p] = Returned(exec[p].row, "SUCCESS")]
    /\ UNCHANGED <<images, files, nextId, uniq, call, result, req, session>>

NextSheet == \E p \in Procs : Edit(p) \/ Copy(p) \/ Mark(p)

SpecSheet == Init /\ [][NextSheet]_vars

(***************************************************************************)
(* Properties                                                              *)
(***************************************************************************)
Distance(hash1, hash2) == hammingDistance(hash1, hash2).distance

\* The stored records within `threshold` of `hash`.
Within(rows, hash, threshold) == {r \in rows : Distance(hash, r.phash) <= threshold}

\* The least distance from `hash` to a stored fingerprint (rows not empty).
MinDistance(rows, hash) ==
    CHOOSE d \in {Distance(hash, r.phash) : r \in rows} :
        \A r \in rows : d <= Distance(hash, r.phash)

\* A findDuplicate call has returned a match.
FoundMatch == call.op = "findDuplicate" /\ result.kind = "match"

\* A saveImage call has returned the array `success => false, error => error`.
SaveFailed(error) ==
    /\ call.op = "saveImage"
    /\ result.kind = "return"
    /\ ~result.success
    /\ result.error = error

C2_MatchIffWithinThreshold ==
    /\ (call.op = "findDuplicate" /\ call.file \in ValidFiles) =>
          LET near == Within(images, HashOf[call.file], call.threshold)
          IN  /\ result.kind = "match" => near # {}
              /\ result.kind = "null" => near = {}
              /\ result.kind \in {"match", "null", "exception"}
    /\ call = NoCall =>
          \A f \in ValidFiles, t \in Thresholds, q \in GoodFetches(images) :
             LET m == findDuplicate(q, f, t)
             IN  /\ m.kind = "match" <=> Within(images, HashOf[f], t) # {}
                 /\ m.kind = "null" <=> Within(images, HashOf[f], t) = {}

\* C2 witness: findDuplicate has returned null on a store that is not empty.
C2_Witness ==
    call.op = "findDuplicate" /\ result.kind = "null" /\ images # {}


StoreUnchanged == images' = images /\ files' = files

\* The step is a saveImage call.
SaveStep == call = NoCall /\ call'.op = "saveImage"

\* The saveImage call of this step returns `success => false, error => error`.
SaveFails(error) ==
    /\ SaveStep
    /\ result'.kind = "return"
    /\ ~result'.success
    /\ result'.error = error

\* C3: a saveImage call with allowDuplicates = false whose duplicate check
\* finds a match fails with the duplicate result carrying a matched stored
\* record, and leaves the stored files and the image records as they were;
\* the duplicate result is returned only by such a call.
C3_DuplicateRejectedWithoutPersistence ==
    [][/\ SaveFails("Duplicate image detected") =>
            /\ ~call'.allowDuplicates
            /\ StoreUnchanged
            /\ result'.duplicate.kind = "match"
            /\ \E r \in images :
                  /\ r.id = result'.duplicate.id
                  /\ r.file_path = result'.duplicate.file_path
                  /\ Distance(HashOf[call'.file], r.phash) <= DefaultThreshold
                  /\ result'.duplicate.hamming_distance
                        = Distance(HashOf[call'.file], r.phash)
       /\ ( /\ SaveStep
            /\ ~call'.allowDuplicates
            /\ call'.file \in ValidFiles
            /\ Within(images, HashOf[call'.file], DefaultThreshold) # {}
            /\ result'.kind = "return" )
          => SaveFails("Duplicate image detected") /\ StoreUnchanged
      ]_vars

\* C3 witness: a saveImage call was rejected as a duplicate.
C3_Witness == SaveFailed("Duplicate image detected") /\ files # <<>>

\* C4 (as claimed): between calls the store and the index agree: every file in
\* the upload directory is referenced by exactly one image record, and every
\* image record's file_path names a file that exists.
C4_StoreAndIndexAgree ==
    call = NoCall =>
       /\ \A n \in DOMAIN files : Cardinality({r \in images : r.file_path = n}) = 1
       /\ \A r \in images : r.file_path \in DOMAIN files

\* The saveImage call of this step moves the file into the upload directory
\* and then fails at the metadata step (the hash or the insert).
MetadataStepFails ==
    /\ SaveStep
    /\ Accepted(call'.file)
    /\ result'.kind = "return"
    /\ \/ call'.allowDuplicates
       \/ Within(images, HashOf[call'.file], DefaultThreshold) = {}
    /\ \/ call'.fault = "insert"
       \/ call'.fault = "none" /\ ~loadImage(call'.file)

\* C5: when saveImage has moved the file into the upload directory and the
\* hash generation or the insert then fails, the call returns a failure, the
\* moved file is no longer in the upload directory and no record was added.
C5_MovedFileRemovedOnFailure ==
    [][/\ MetadataStepFails =>
            /\ SaveFails("Database error")
            /\ uniq \notin DOMAIN files'
            /\ uniq' = uniq + 1
            /\ StoreUnchanged
       /\ SaveFails("Database error") => MetadataStepFails
      ]_vars

\* C5 witness: a saveImage call failed at the metadata step with files and
\* records already in the store.
C5_Witness == SaveFailed("Database error") /\ images # {} /\ uniq > 1

\* The store holds the record of an earlier upload of file f (the catalogue's
\* names tell its contents apart).
Registered(f) == \E r \in images : r.filename = Catalog[f].name

\* C6: once an image is stored and its record not deleted, every later
\* saveImage of the same content with allowDuplicates = false stores nothing:
\* it is rejected as a duplicate whenever the call returns (it ends in an
\* exception only when its query fails), whatever else the store holds; when
\* the store holds only that image the rejection reports that record with
\* distance 0 and similarity 100%.
C6_SameImageTwiceIsRejected ==
    [][( /\ SaveStep
         /\ ~call'.allowDuplicates
         /\ call'.file \in ValidFiles
         /\ Registered(call'.file) )
       => /\ StoreUnchanged
          /\ result'.kind \in {"return", "exception"}
          /\ result'.kind = "exception" => result'.message = "PDOException"
          /\ result'.kind = "return" =>
                /\ SaveFails("Duplicate image detected")
                /\ Cardinality(images) = 1 =>
                      /\ \E r \in images : r.id = result'.duplicate.id
                      /\ result'.duplicate.hamming_distance = 0
                      /\ result'.duplicate.similarity.num
                            = 100 * result'.duplicate.similarity.den
      ]_vars

\* C6 witness: the second upload of a stored image was rejected as a duplicate
\* while the store held another image too.
C6_Witness ==
    /\ SaveFailed("Duplicate image detected")
    /\ Registered(call.file)
    /\ Cardinality(images) >= 2

\* findDuplicate has completed on the fingerprint of a registered image.
SelfLookup ==
    /\ call.op = "findDuplicate"
    /\ call.file \in ValidFiles
    /\ Registered(call.file)
    /\ result.kind # "exception"

C8_ThresholdMonotonicity ==
    (FoundMatch /\ call.file \in ValidFiles) =>
       \A t2 \in Thresholds, q \in GoodFetches(images) :
          t2 > call.threshold => findDuplicate(q, call.file, t2).kind = "match"

\* C8 witness: a match found at a threshold below the largest one, at a
\* distance equal to that threshold.
C8_Witness ==
    /\ FoundMatch
    /\ call.threshold < MaxThreshold
    /\ result.hamming_distance = call.threshold
    /\ call.threshold > 0

\* C9 (as claimed): saveImage's duplicate check uses the configured
\* SIMILARITY_THRESHOLD: for each value v the documentation offers (0, 5, 10),
\* with v configured an upload is rejected as a duplicate exactly when some
\* stored fingerprint is within v.
C9_UsesConfiguredThreshold ==
    [][( /\ SaveStep
         /\ ~call'.allowDuplicates
         /\ call'.file \in ValidFiles
         /\ result'.kind = "return" )
       => \A v \in ConfiguredThresholds :
             SaveFails("Duplicate image detected")
                <=> Within(images, HashOf[call'.file], v) # {}
      ]_vars

\* Every concurrent request has returned.
AllDone == \A p \in Procs : req[p].pc = "done"

\* C10 (as claimed): when concurrent saveImage calls with
\* allowDuplicates = false have all returned, the records are such as some
\* serial execution of the calls leaves: a serial execution stores an upload
\* only if no record is within the threshold, so no two records are within
\* the threshold of each other, and the same content is never stored twice.
C10_ConcurrentUploadsSerializable ==
    AllDone =>
       \A r1 \in images, r2 \in images :
          r1 # r2 => Distance(r1.phash, r2.phash) > DefaultThreshold

\* The step is a deleteImage call.
DeleteStep == call = NoCall /\ call'.op = "deleteImage"

\* The deleteImage call of this step returns true.
DeleteSucceeds == DeleteStep /\ result'.kind = "return" /\ result'.value = TRUE

\* C11: a deleteImage(id) call that returns true removes the record of that
\* id and its stored file and nothing else: every other record and every
\* other stored file is as before; no findDuplicate on the resulting store
\* returns the deleted id, whatever the candidate, threshold and scan order;
\* and the id does not come back, because every record a later step adds
\* takes an id above all ids handed out so far.
C11_DeleteRemovesOnlyThatImage ==
    [][/\ DeleteSucceeds =>
            \E image \in images :
               /\ image.id = call'.id
               /\ images' = images \ {image}
               /\ \A r \in images' : r.id # call'.id
               /\ DOMAIN files' = DOMAIN files \ {image.file_path}
               /\ \A n \in DOMAIN files' : files'[n] = files[n]
               /\ \A f \in ValidFiles, t \in Thresholds, q \in GoodFetches(images') :
                     LET m == findDuplicate(q, f, t)
                     IN  m.kind = "match" => m.id # call'.id
       /\ \A r \in images : r.id < nextId
       /\ nextId' >= nextId
       /\ \A r \in images' \ images : r.id >= nextId /\ r.id < nextId'
      ]_vars

\* C11 witness: a deleteImage call returned true and left another record in
\* the store.
C11_Witness ==
    /\ call.op = "deleteImage"
    /\ result.kind = "return"
    /\ result.value = TRUE
    /\ images # {}
    /\ files # <<>>

\* The saveImage call of this step returns `success => true`.
SaveSucceeds == SaveStep /\ result'.kind = "return" /\ result'.success

\* C12: a saveImage call that succeeds adds exactly one record and exactly
\* one stored file: the record's id is the returned id and differs from every
\* existing id, its fingerprint is generateHash of the uploaded image, its
\* file is new and holds the upload, and every earlier record and file is
\* unchanged.  With allowDuplicates = true a valid image whose move and
\* insert do not fail is stored this way whatever the store holds.
C12_SuccessAddsOneRecordAndOneFile ==
    [][/\ SaveSucceeds =>
            \E row \in images' :
               /\ row \notin images
               /\ images' = images \cup {row}
               /\ row.id = result'.id
               /\ \A r \in images : r.id # row.id /\ r.file_path # row.file_path
               /\ loadImage(call'.file)
               /\ row.phash = generateHash(call'.file)
               /\ result'.hash = row.phash
               /\ row.file_path \notin DOMAIN files
               /\ DOMAIN files' = DOMAIN files \cup {row.file_path}
               /\ files'[row.file_path] = call'.file
               /\ \A n \in DOMAIN files : files'[n] = files[n]
       /\ ( /\ SaveStep
            /\ call'.allowDuplicates
            /\ call'.file \in ValidFiles
            /\ call'.fault = "none" )
          => SaveSucceeds
      ]_vars

\* C12 witness: a saveImage call with allowDuplicates = true has stored an
\* image while another record's fingerprint is within the threshold.
C12_Witness ==
    /\ call.op = "saveImage"
    /\ call.allowDuplicates
    /\ result.kind = "return"
    /\ result.success
    /\ \E r \in images :
          r.id # result.id /\ Distance(r.phash, result.hash) <= DefaultThreshold

\* The messages of the failure arrays saveImage returns.
SaveErrors ==
    {"Upload error", "Invalid image type", "Duplicate image detected",
     "Failed to save image", "Database error"}

\* C13 (as claimed): saveImage reports every outcome to its caller as a
\* returned array with a success flag and, on failure, an error message: for
\* an upload error, a disallowed MIME type, an undecodable image that passes
\* the MIME check, a duplicate, a failed move and a database failure in the
\* duplicate scan or the insert, the call returns and never ends by raising
\* an exception.
C13_EveryOutcomeIsReturned ==
    call.op = "saveImage" =>
       /\ result.kind = "return"
       /\ result.success \in BOOLEAN
       /\ ~result.success => result.error \in SaveErrors

\* C14: generateHash fails on a file that does not decode as an image (the
\* findDuplicate call on it ends with "Failed to load image"), and a
\* saveImage call on such a file never succeeds and leaves the stored files
\* and the records as they were, for allowDuplicates = false and = true: a
\* disallowed MIME type is refused by the type check; otherwise without
\* allowDuplicates the duplicate check ends the call with the load error
\* before any file is moved, and with allowDuplicates the file is moved, the
\* hash fails and the moved file is removed again.
C14_UndecodableInputIsRejected ==
    [][/\ ( /\ call = NoCall
            /\ call'.op = "findDuplicate"
            /\ ~loadImage(call'.file) )
          => result' = Exception("Failed to load image")
       /\ (SaveStep /\ ~loadImage(call'.file)) =>
             /\ StoreUnchanged
             /\ nextId' = nextId
             /\ IF Catalog[call'.file].mime \notin allowedTypes
                THEN SaveFails("Invalid image type") /\ uniq' = uniq
                ELSE IF ~call'.allowDuplicates
                THEN result' = Exception("Failed to load image") /\ uniq' = uniq
                ELSE /\ uniq' = uniq + 1
                     /\ uniq \notin DOMAIN files'
                     /\ IF call'.fault = "move"
                        THEN SaveFails("Failed to save image")
                        ELSE SaveFails("Database error")
      ]_vars

\* C14 witness: a saveImage call with allowDuplicates = true on an undecodable
\* file of an allowed MIME type has got past the file move and failed, with
\* records and files in the store.
C14_Witness ==
    /\ call.op = "saveImage"
    /\ ~loadImage(call.file)
    /\ call.allowDuplicates
    /\ SaveFailed("Database error")
    /\ images # {}
    /\ files # <<>>

\* The bit sequence a hex string encodes: four bits per digit, the most
\* significant first.
HexToBits(hash) ==
    [p \in 1..(4 * Len(hash)) |->
        Bit(hexdec(hash[(p - 1) \div 4 + 1]), 3 - ((p - 1) % 4))]

\* The number of positions at which two bit sequences of one length differ.
BitDifference(bits1, bits2) ==
    Cardinality({p \in DOMAIN bits1 : bits1[p] # bits2[p]})

\* hammingDistance has been called.
HammingCall == call.op = "hammingDistance"

SameLength == Len(call.hash1) = Len(call.hash2)

\* C15: for two fingerprints of equal length hammingDistance returns the
\* number of bit positions at which the underlying bit sequences differ: each
\* hex string is generateHash's encoding (binary to hex, four bits a digit) of
\* a bit sequence, and the per-digit XOR popcount on the hex strings equals
\* the count of differing positions of those bit sequences.
C15_DistanceCountsDifferingBits ==
    (HammingCall /\ SameLength) =>
       LET bits1 == HexToBits(call.hash1)
           bits2 == HexToBits(call.hash2)
       IN  /\ BinToHex(bits1) = call.hash1
           /\ BinToHex(bits2) = call.hash2
           /\ result.kind = "return"
           /\ result.value = BitDifference(bits1, bits2)

\* C15 witness: the distance of two different 64-bit fingerprints that differ
\* in more than one digit.
C15_Witness ==
    /\ HammingCall
    /\ Len(call.hash1) * 4 = hashSize * hashSize
    /\ result.kind = "return"
    /\ result.value > 4

\* C16: for fingerprints a and b of equal bit length L,
\* 0 <= hammingDistance(a, b) <= L, and hammingDistance(a, a) = 0.
C16_DistanceBounds ==
    (HammingCall /\ SameLength) =>
       /\ result.kind = "return"
       /\ result.value >= 0
       /\ result.value <= Len(HexToBits(call.hash1))
       /\ call.hash1 = call.hash2 => result.value = 0

\* C16 witness: two fingerprints of more than one digit at the largest
\* distance their length allows.
C16_Witness ==
    /\ HammingCall
    /\ SameLength
    /\ Len(call.hash1) >= 2
    /\ result.kind = "return"
    /\ result.value = 4 * Len(call.hash1)

\* C17: for fingerprints a and b of equal length,
\* hammingDistance(a, b) = hammingDistance(b, a).
C17_Symmetry ==
    (HammingCall /\ SameLength) =>
       /\ result.kind = "return"
       /\ ~hammingDistance(call.hash2, call.hash1).error
       /\ result.value = hammingDistance(call.hash2, call.hash1).distance

\* C17 witness: the distance of two fingerprints one of which has every bit
\* of the other set and more.
C17_Witness ==
    /\ HammingCall
    /\ SameLength
    /\ result.kind = "return"
    /\ result.value > 0
    /\ \A p \in DOMAIN HexToBits(call.hash1) :
          HexToBits(call.hash1)[p] <= HexToBits(call.hash2)[p]

\* C18: hammingDistance on two fingerprints of different lengths fails with
\* the length-mismatch error and yields no distance; it fails in no other
\* case.
C18_LengthMismatchFails ==
    HammingCall =>
       /\ ~SameLength => result = Exception("Hashes must be the same length")
       /\ result.kind = "exception" => ~SameLength
       /\ result.kind \in {"exception", "return"}

\* C18 witness: the call failed on two non-empty fingerprints of which one is
\* a prefix of the other.
C18_Witness ==
    /\ HammingCall
    /\ result.kind = "exception"
    /\ Len(call.hash1) >= 1
    /\ Len(call.hash2) > Len(call.hash1)
    /\ SubSeq(call.hash2, 1, Len(call.hash1)) = call.hash1

\* The bits generateHash derives from every catalogue image, before the
\* conversion to hex.
HashBitsOf ==
    [f \in DOMAIN Catalog |-> IF loadImage(f) THEN HashBits(pixels(f)) ELSE <<>>]

\* generateHash turns every decodable catalogue image into hashSize * hashSize
\* bits and those into a hex string of a quarter that length which encodes
\* exactly those bits.
CatalogFingerprintsEncodeAllBits ==
    \A f \in DOMAIN Catalog :
       loadImage(f) =>
          /\ Len(HashBitsOf[f]) = hashSize * hashSize
          /\ Len(HashOf[f]) * 4 = hashSize * hashSize
          /\ HexToBits(HashOf[f]) = HashBitsOf[f]

FileOf(r) == CHOOSE f \in DOMAIN Catalog : Catalog[f].name = r.filename

\* The colour of a one-colour image and its grayscale intensity in thirds.
Colour(f) == Catalog[f].hi

Intensity(f) == gray(Colour(f))

\* The intensity ($r + $g + $b) / 3 is an integer.
IntegerIntensity(f) == Intensity(f) % 3 = 0

AllBits(b) == BinToHex([i \in 1..(hashSize * hashSize) |-> b])

\* findDuplicate has completed on a one-colour image with threshold 0.
SolidLookup ==
    /\ call.op = "findDuplicate"
    /\ call.file \in SolidFiles
    /\ call.threshold = 0
    /\ result.kind # "exception"

\* C20 (as claimed): after a one-colour image is registered, a one-colour
\* image of a different colour and a different grayscale intensity, looked up
\* with threshold 0, yields no duplicate.
C20_DistinctSolidColoursNotFlagged ==
    ( /\ SolidLookup
      /\ \A r \in images :
            /\ Colour(FileOf(r)) # Colour(call.file)
            /\ Intensity(FileOf(r)) # Intensity(call.file) )
    => result.kind = "null"

\* Every one-colour image of the catalogue has the all-0 or the all-1
\* fingerprint, the all-0 one when its intensity is an integer, and any two of
\* them are at distance 0 or 64.
SolidFingerprintsUniform ==
    /\ \A f \in SolidFiles :
          /\ HashOf[f] \in {AllBits(0), AllBits(1)}
          /\ IntegerIntensity(f) => HashOf[f] = AllBits(0)
    /\ \A f \in SolidFiles, g \in SolidFiles :
          Distance(HashOf[f], HashOf[g]) \in {0, hashSize * hashSize}

\* C20 (amended): the fingerprint of a one-colour image has all its bits
\* equal, and all 0 when its intensity is an integer, so one-colour images
\* are not told apart by colour or intensity: two of them are at distance 0 or
\* at distance 64; a lookup with threshold 0 of a one-colour image yields a
\* duplicate at distance 0 exactly when a registered image has the same
\* fingerprint, and always when the candidate and a registered image both
\* have integer intensities, however different their colours.
C20_SolidColoursShareFingerprint ==
    /\ SolidFingerprintsUniform
    /\ SolidLookup =>
          /\ result.kind = "match" <=> \E r \in images : r.phash = HashOf[call.file]
          /\ result.kind = "match" => result.hamming_distance = 0
          /\ ( /\ IntegerIntensity(call.file)
               /\ \E r \in images : IntegerIntensity(FileOf(r)) )
             => result.kind = "match"

\* C20 witness: a one-colour image looked up with threshold 0 was reported as
\* a duplicate, at distance 0, of a registered image of a different colour and
\* a different intensity.
C20_Witness ==
    /\ SolidLookup
    /\ result.kind = "match"
    /\ result.hamming_distance = 0
    /\ \E r \in images :
          /\ r.id = result.id
          /\ Colour(FileOf(r)) # Colour(call.file)
          /\ Intensity(FileOf(r)) # Intensity(call.file)

\* The cell intensities (in thirds) of every catalogue image, row-major.
PixelsOf == [f \in DOMAIN Catalog |-> IF loadImage(f) THEN pixels(f) ELSE <<>>]

Cells == 1..(hashSize * hashSize)

\* Image g is image f with the same constant added to every cell.
ShiftOf(f, g) ==
    \A i \in Cells : PixelsOf[g][i] - PixelsOf[f][i] = PixelsOf[g][1] - PixelsOf[f][1]

\* Image g is image f with every cell multiplied by the same positive factor.
ScaleOf(f, g) ==
    \E m \in Cells :
       /\ PixelsOf[f][m] > 0
       /\ PixelsOf[g][m] > 0
       /\ \A i \in Cells : PixelsOf[g][i] * PixelsOf[f][m] = PixelsOf[f][i] * PixelsOf[g][m]

\* generateHash has returned a fingerprint.
HashReturned == call.op = "generateHash" /\ result.kind = "return"

\* C21 (as claimed): the fingerprint is invariant under uniform brightness and
\* contrast shifts: adding the same constant to every cell of a grid, or
\* multiplying every cell by the same positive factor, yields the same
\* fingerprint.
C21_InvariantUnderShiftAndScale ==
    HashReturned =>
       \A g \in DOMAIN Catalog :
          (loadImage(g) /\ (ShiftOf(call.file, g) \/ ScaleOf(call.file, g)))
             => HashOf[g] = result.value

\* C22: every match findDuplicate returns reports
\* similarity = 100 * (1 - d / L), with d the distance reported in the same
\* match and L the bit length of the fingerprint, so that the similarity is
\* 100 exactly when d = 0; and the outcome is decided by the distances and the
\* threshold alone: a match is returned exactly when a stored fingerprint is
\* at a distance of at most the threshold, whatever its similarity.
C22_SimilarityFromDistance ==
    (call.op = "findDuplicate" /\ call.file \in ValidFiles /\ result.kind # "exception") =>
       LET L == 4 * Len(HashOf[call.file])
       IN  /\ result.kind = "match" <=>
                 \E r \in images : Distance(HashOf[call.file], r.phash) <= call.threshold
           /\ result.kind = "match" =>
                 LET d == result.hamming_distance
                     sim == result.similarity
                 IN  /\ L = hashSize * hashSize
                     /\ sim.den > 0
                     /\ sim.num * L = 100 * (L - d) * sim.den
                     /\ sim.num = 100 * sim.den <=> d = 0
                     /\ sim.num >= 0
                     /\ d <= call.threshold

\* C22 witness: a match at distance 5, whose similarity is 92.1875.
C22_Witness ==
    /\ FoundMatch
    /\ result.hamming_distance = DefaultThreshold
    /\ result.similarity.num * 10000 = 921875 * result.similarity.den

(***************************************************************************)
(* The admin panel's password protection.                                  *)
(***************************************************************************)
AdminStep == call = NoCall /\ call'.op = "admin"

\* The session carries the flag that a login with the right password sets.
LoggedIn(sess) == sess = [k \in {"authenticated"} |-> TRUE]

\* A stored image loses its record or its file.
ImageDeleted ==
    \/ \E r \in images : r \notin images'
    \/ \E n \in DOMAIN files : n \notin DOMAIN files'

\* C23: over any sequence of admin.php requests, an image is deleted only
\* by a request whose session an earlier login with the right password
\* had authenticated and no logout had ended since; a wrong password
\* never authenticates the session, and a logout ends the authentication:
\* no delete is performed for the session until a new successful login.
C23_DeleteOnlyWhenAuthenticated ==
    [][/\ ImageDeleted =>
            /\ AdminStep
            /\ LoggedIn(session[call'.session])
            /\ ~call'.request.logout
            /\ isset(call'.request, "delete_id")
       /\ \A s \in Sessions :
            /\ session[s] \in {NewSession, [k \in {"authenticated"} |-> TRUE]}
            /\ (~LoggedIn(session[s]) /\ LoggedIn(session'[s])) =>
                  /\ AdminStep
                  /\ call'.session = s
                  /\ ~call'.request.logout
                  /\ call'.request.method = "POST"
                  /\ isset(call'.request, "password")
                  /\ call'.request.password = ADMIN_PASSWORD
       /\ (AdminStep /\ call'.request.logout) =>
            /\ session'[call'.session] = NewSession
            /\ StoreUnchanged
       /\ (AdminStep /\ call'.request.password # ADMIN_PASSWORD) =>
            /\ LoggedIn(session'[call'.session]) => LoggedIn(session[call'.session])
            /\ ~LoggedIn(session[call'.session]) =>
                  (StoreUnchanged /\ result'.kind \in {"page", "redirect"}
                   /\ (result'.kind = "page" => result'.page = "login")
                   /\ (result'.kind = "redirect" => call'.request.logout))
      ]_vars

C23_Witness ==
    /\ call.op = "admin"
    /\ call.request.post = {"password", "delete_id"}
    /\ call.request.password = "letmein"
    /\ result = Redirect("delete")
    /\ LoggedIn(session[call.session])
    /\ \E s \in Sessions : ~LoggedIn(session[s])
    /\ nextId > 1
    /\ images = {}

(***************************************************************************)
(* The rows parseGradedRows keeps.                                         *)
(***************************************************************************)
\* The cell without its leading and trailing whitespace.
Core(cell) ==
    LET ink == {i \in DOMAIN cell : cell[i] \notin Whitespace}
    IN  IF ink = {} THEN <<>>
        ELSE SubSeq(cell, CHOOSE i \in ink : \A j \in ink : i <= j,
                          CHOOSE i \in ink : \A j \in ink : i >= j)

\* The grade the cell holds, if it holds one: W, L or P in either case.
GradeOf(cell) ==
    CASE Core(cell) \in {<<"W">>, <<"w">>} -> "W"
      [] Core(cell) \in {<<"L">>, <<"l">>} -> "L"
      [] Core(cell) \in {<<"P">>, <<"p">>} -> "P"
      [] OTHER -> "none"

IsYes(cell) ==
    /\ Len(Core(cell)) = 3
    /\ Core(cell)[1] \in {"Y", "y"}
    /\ Core(cell)[2] \in {"E", "e"}
    /\ Core(cell)[3] \in {"S", "s"}

\* Row i of the sheet (row 1 is the header) is a verified record.
Verified(rows, i) ==
    /\ i > 1
    /\ Len(rows[i]) >= 13
    /\ GradeOf(rows[i][11]) # "none"
    /\ IsYes(rows[i][13])

ParsedRows == call.op = "parseGradedRows" /\ result.kind = "return"

\* C24: parseGradedRows keeps a row exactly when it is not the header, has
\* at least 13 columns, its grade (column K, trimmed, in either case) is
\* W, L or P and its processed marker (column M, trimmed, in either case)
\* is YES; the output lists the kept rows in their input order, each once.
C24_KeepsExactlyVerifiedRows ==
    ParsedRows =>
       LET rows == call.rows
           out == result.value
           kept == {i \in DOMAIN rows : Verified(rows, i)}
       IN  /\ Len(out) = Cardinality(kept)
           /\ \A i \in kept :
                 LET k == Cardinality({j \in kept : j <= i})
                 IN  /\ \A c \in 1..10 :
                           out[k][<<"date", "pick", "odds", "result", "units", "league",
                                    "sport", "ready", "postedAt", "pushed">>[c]] = rows[i][c]
                     /\ out[k].unitResult = rows[i][12]
                     /\ out[k].grade = <<GradeOf(rows[i][11])>>
                     /\ out[k].processed = <<"Y", "E", "S">>

C24_Witness ==
    /\ ParsedRows
    /\ Len(call.rows) = 3
    /\ Len(result.value) = 1
    /\ result.value[1].pick = <<"C">>
    /\ Len(call.rows[3]) = 14
    /\ call.rows[3][2] = <<"C">>
    /\ call.rows[3][13] = <<"\t", "Y", "e", "s">>
    /\ call.rows[1][2] = <<"P", "i", "c", "k">>
    /\ Len(call.rows[2]) = 12

(***************************************************************************)
(* The bits of a fingerprint against the exact mean of the grid.           *)
(***************************************************************************)
\* Cell i of image f is strictly above the mean of the cells of f (the
\* intensities are compared exactly, as rational numbers).
AboveMean(f, i) ==
    PixelsOf[f][i] * Cardinality(Cells) > array_sum(PixelsOf[f])

\* C25 (as claimed): for every grid of cell intensities, bit i of the
\* fingerprint is 1 exactly when the grayscale intensity of cell i (the
\* average of its red, green and blue values) is strictly greater than the
\* mean intensity of all the cells, and 0 otherwise, the cells taken in
\* row-major order.
C25_BitIsOneExactlyAboveMean ==
    HashReturned =>
       \A i \in Cells :
          HexToBits(result.value)[i] = IF AboveMean(call.file, i) THEN 1 ELSE 0

\* Every cell of image f has the same intensity.
UniformGrid(f) == \A i \in Cells : PixelsOf[f][i] = PixelsOf[f][1]

\* C29 (as claimed): no fingerprint generateHash produces has all its bits
\* set (not every cell can be strictly above the mean), and a grid whose
\* cells all have the same intensity yields the all-zero fingerprint.
C29_NeverAllOnes ==
    HashReturned =>
       /\ result.value # AllBits(1)
       /\ UniformGrid(call.file) => result.value = AllBits(0)

(***************************************************************************)
(* Lookups with any threshold, over tables with records of another grid    *)
(* size.                                                                   *)
(***************************************************************************)
LookedUp == call.op = "findDuplicate" /\ result.kind # "none"

\* C26 (as claimed): findDuplicate range-checks its threshold: a threshold
\* below 0 or above the bit length of the fingerprint is rejected as
\* invalid and is not used for matching, so that the call yields neither a
\* match nor "no duplicate".
C26_ThresholdRangeChecked ==
    (LookedUp /\ (call.threshold < 0 \/ call.threshold > hashSize * hashSize))
       => result.kind \notin {"match", "null"}

\* The table holds a fingerprint whose length differs from the candidate's.
HoldsOtherLength(rows, f) ==
    \E i \in DOMAIN rows : Len(rows[i].phash) # Len(HashOf[f])

TooClose(r1, r2) ==
    r1.id # r2.id /\ Distance(r1.phash, r2.phash) <= DefaultThreshold

\* C28: starting from the empty store, after any sequence of sequential
\* saveImage calls with allowDuplicates = false and deleteImage calls, no
\* two stored records have fingerprints within Hamming distance 5 of each
\* other; each upload that succeeds adds one record, farther than 5 from
\* every record stored before it.
C28_StoredFingerprintsApart ==
    [][/\ \A r1 \in images, r2 \in images : ~TooClose(r1, r2)
       /\ \A r1 \in images', r2 \in images' : ~TooClose(r1, r2)
       /\ SaveSucceeds =>
             /\ ~call'.allowDuplicates
             /\ \E r \in images' \ images :
                   /\ images' = images \cup {r}
                   /\ r.phash = HashOf[call'.file]
                   /\ \A q \in images : Distance(q.phash, r.phash) > DefaultThreshold
      ]_vars

C28_Witness ==
    /\ call.op = "saveImage"
    /\ ~call.allowDuplicates
    /\ result.kind = "return"
    /\ result.success
    /\ Cardinality(images) = 2
    /\ \A r1 \in images, r2 \in images :
          r1 # r2 => Distance(r1.phash, r2.phash) = DefaultThreshold + 1

(***************************************************************************)
(* The sheet automation: a graded row is copied once.                      *)
(***************************************************************************)
\* The rows of the league sheets that are copies of row r of Sheet1.
CopiesOf(r) ==
    {<<l, k>> \in LeagueNames \X (1..MaxCopies) :
        /\ k <= Len(sheet.leagues[l].rows)
        /\ sheet.leagues[l].rows[k].pick = sheet.Sheet1[r].pick}

\* The step is a grade edit of row r: the user's edit and the start of the
\* trigger's execution p.
GradeEdit(p, r) ==
    /\ exec[p].pc \in {"idle", "done"}
    /\ exec'[p] # exec[p]
    /\ exec'[p].row = r

\* C30 (as claimed): over any sequence of grade edits on the same row of
\* Sheet1, the row is copied to its league sheet at most once: once column
\* M of the row holds YES, a later grade edit appends nothing to any league
\* sheet and changes no other cell (column L is not recalculated); and a
\* row is marked YES only after its copy has been written.
C30_RowCopiedAtMostOnce ==
    [][/\ \A r \in Rows :
            /\ Cardinality(CopiesOf(r)) <= 1
            /\ sheet.Sheet1[r].processed = "YES" => CopiesOf(r) # {}
            /\ \A p \in Procs :
                  (GradeEdit(p, r) /\ sheet.Sheet1[r].processed = "YES") =>
                     /\ sheet'.leagues = sheet.leagues
                     /\ \E value \in GradeInputs :
                           sheet'.Sheet1 = [sheet.Sheet1 EXCEPT ![r].grade = value]
      ]_vars
====
